---- MODULE Spec2Model ----
(***************************************************************************)
(* A model of the omnii dashboard's derivation and glue code:              *)
(*   - getHeartbeatStatus / HeartbeatIndicator   (routes/instances.$id.tsx)*)
(*   - ConnectivitySummary / ConnectivityLatencyChart                      *)
(*                                         (components/connectivity-charts)*)
(*   - getApiUrl / getFetchClient / initializeApi / api      (lib/api.ts)  *)
(*   - handleTriggerUpdate / handleDelete / refetchAll                     *)
(*                                              (routes/instances.$id.tsx) *)
(* Each part has its own specification over the shared variables; the      *)
(* variables of the other parts stay at their initial values.              *)
(***************************************************************************)
EXTENDS Integers, Sequences, FiniteSets, TLC

VARIABLES
    \* ---- heartbeat classifier
    clock,          \* what Date.now() returns
    lastSeen,       \* instance.lastSeen as last fetched: Null or Some(ms)
    hbCall,         \* the latest getHeartbeatStatus call: Null or Some(call)
    earlierCall,    \* some call made before hbCall: Null or Some(call)
    \* ---- connectivity summary and latency chart
    checks,         \* connectivityChecks, the array both components are given
    checksCopy,     \* a copy of that array taken when the query delivered it
    summary,        \* what the summary's memo callback last returned
    prevSummary,    \* what it returned the time before
    chartData,      \* what the chart's memo callback last returned, with its target
    \* ---- API client configuration
    isBrowser,            \* typeof window !== "undefined"
    envApiUrl,            \* process.env.API_URL of the server process
    cachedApiUrl,         \* the module variable cachedApiUrl
    fetchClientInstance,  \* the module variable fetchClientInstance
    api,                  \* the client the exported api wraps
    clientsCreated,       \* how many clients createFetchClient has made
    initCall,             \* the calls of initializeApi: pc, apiUrl, lookup made
    lookups,              \* how often /api/config or the environment was consulted
    request,              \* the latest request issued through api
    \* ---- mutations of the instance page
    isDeleting,         \* useState(false)
    deleteDialogOpen,   \* useState(false)
    triggeringUpdate,   \* useState<string | null>(null)
    navigated,          \* navigate({to: "/"}) has left the page
    instanceStatus,     \* instance.status as last fetched
    calls,              \* the runs of handleTriggerUpdate and handleDelete, in order
    timers,             \* the pending setTimeout timers, oldest first
    refetchRuns,        \* how often a timer has run refetchAll
    refetched           \* the queries refetchAll has refetched

hbVars == <<clock, lastSeen, hbCall, earlierCall>>

connVars == <<checks, checksCopy, summary, prevSummary, chartData>>

apiVars == <<isBrowser, envApiUrl, cachedApiUrl, fetchClientInstance, api, clientsCreated,
             initCall, lookups, request>>

mutVars == <<isDeleting, deleteDialogOpen, triggeringUpdate, navigated, instanceStatus, calls,
             timers, refetchRuns, refetched>>

vars == <<hbVars, connVars, apiVars, mutVars>>

\* What the actions of one part leave alone: the variables of the others.
notHbVars == <<connVars, apiVars, mutVars>>

notConnVars == <<hbVars, apiVars, mutVars>>

notApiVars == <<hbVars, connVars, mutVars>>

notMutVars == <<hbVars, connVars, apiVars>>

(***************************************************************************)
(* Optional values (T | null): Null is <<>>, a present value v is <<v>>.   *)
(***************************************************************************)
Null == <<>>

Some(v) == <<v>>

Val(o) == o[1]

\* JavaScript truthiness of a number | null: null and 0 are falsy.
TruthyNumber(o) == o # Null /\ Val(o) # 0

\* JavaScript truthiness of a string | null: null and "" are falsy.
TruthyString(o) == o # Null /\ Val(o) # ""

(***************************************************************************)
(* Heartbeat classifier                                                    *)
(***************************************************************************)
MsPerDay == 86400000

\* new Date(ms).toLocaleDateString(): the calendar day holding ms.
toLocaleDateString(ms) == [text |-> "date", n |-> ms \div MsPerDay]

\* A label is [text, n]: "Just now", `${n}s ago`, `${n}m ago`, `${n}h ago`,
\* a calendar date (n the day), or "Never".  \div is floor division, as
\* Math.floor of the quotient.
HeartbeatLabel(lastSeenMs, diffSeconds, diffMinutes) ==
    IF diffSeconds < 60
    THEN IF diffSeconds <= 1
         THEN [text |-> "Just now", n |-> 0]
         ELSE [text |-> "s ago", n |-> diffSeconds]
    ELSE IF diffMinutes < 60
         THEN [text |-> "m ago", n |-> diffMinutes]
         ELSE LET diffHours == diffMinutes \div 60
              IN  IF diffHours < 24
                  THEN [text |-> "h ago", n |-> diffHours]
                  ELSE toLocaleDateString(lastSeenMs)

getHeartbeatStatusInclusive(ls, now) ==
    IF ~TruthyNumber(ls)
    THEN [color |-> "gray", label |-> [text |-> "Never", n |-> 0],
          description |-> "No heartbeat received"]
    ELSE LET diffMs      == now - Val(ls)
             diffSeconds == diffMs \div 1000
             diffMinutes == diffSeconds \div 60
             label       == HeartbeatLabel(Val(ls), diffSeconds, diffMinutes)
         IN  IF diffMinutes <= 1
             THEN [color |-> "green", label |-> label, description |-> "Recently active"]
             ELSE IF diffMinutes <= 5
                  THEN [color |-> "yellow", label |-> label, description |-> "Slightly stale"]
                  ELSE [color |-> "red", label |-> label, description |-> "Unreachable"]

\* getHeartbeatStatus(lastSeen) with `now` the value its Date.now() read returns.
getHeartbeatStatus(ls, now) ==
    IF ~TruthyNumber(ls)
    THEN [color |-> "gray", label |-> [text |-> "Never", n |-> 0],
          description |-> "No heartbeat received"]
    ELSE LET diffMs      == now - Val(ls)
             diffSeconds == diffMs \div 1000
             diffMinutes == diffSeconds \div 60
             label       == HeartbeatLabel(Val(ls), diffSeconds, diffMinutes)
         IN  IF diffMinutes < 1
             THEN [color |-> "green", label |-> label, description |-> "Recently active"]
             ELSE IF diffMinutes < 5
                  THEN [color |-> "yellow", label |-> label, description |-> "Slightly stale"]
                  ELSE [color |-> "red", label |-> label, description |-> "Unreachable"]

\* Elapsed times around every threshold of the classifier.
ElapsedValues ==
    {0, 1000, 1999, 2000, 59999, 60000, 90000, 299999, 300000, 301000,
     3599999, 3600000, 86399999, 86400000}

BaseTime == 5000

ClockValues == {BaseTime + e : e \in ElapsedValues}

\* lastSeen as the backend may report it: never, the epoch itself, early,
\* the base time, and a time ahead of every clock reading (clock skew).
LastSeenValues == {Null, Some(0), Some(1), Some(BaseTime), Some(90000000)}

HbInit ==
    /\ clock = BaseTime
    /\ lastSeen = Null
    /\ hbCall = Null
    /\ earlierCall = Null

\* The system clock moves on.
Tick(t) ==
    /\ t > clock
    /\ clock' = t
    /\ UNCHANGED <<lastSeen, hbCall, earlierCall, notHbVars>>

\* instanceQuery delivers a new instance.lastSeen.
InstancePoll(v) ==
    /\ v # lastSeen
    /\ lastSeen' = v
    /\ UNCHANGED <<clock, hbCall, earlierCall, notHbVars>>

HeartbeatIndicatorMemo ==
    /\ hbCall' = Some([lastSeen |-> lastSeen, now |-> clock,
                       result |-> IF hbCall # Null /\ Val(hbCall).lastSeen = lastSeen
                                  THEN Val(hbCall).result
                                  ELSE getHeartbeatStatus(lastSeen, clock)])
    /\ earlierCall' \in (IF hbCall = Null THEN {earlierCall} ELSE {earlierCall, hbCall})
    /\ UNCHANGED <<clock, lastSeen, notHbVars>>

\* A render of HeartbeatIndicator: one call of getHeartbeatStatus(lastSeen).
\* earlierCall keeps any one of the calls made before this one.
HeartbeatIndicator ==
    /\ hbCall' = Some([lastSeen |-> lastSeen, now |-> clock,
                       result |-> getHeartbeatStatus(lastSeen, clock)])
    /\ earlierCall' \in (IF hbCall = Null THEN {earlierCall} ELSE {earlierCall, hbCall})
    /\ UNCHANGED <<clock, lastSeen, notHbVars>>

HbNext ==
    \/ \E t \in ClockValues : Tick(t)
    \/ \E v \in LastSeenValues : InstancePoll(v)
    \/ HeartbeatIndicator

(***************************************************************************)
(* Heartbeat classifier: the claims                                        *)
(***************************************************************************)
Max(a, b) == IF a >= b THEN a ELSE b

CallMade(c) == c # Null

\* The calls the state remembers.
RememberedCalls == {Val(c) : c \in {x \in {hbCall, earlierCall} : CallMade(x)}}

StatedElapsedSeconds(ls, now) == Max(0, now - ls) \div 1000

StatedElapsedMinutes(ls, now) == StatedElapsedSeconds(ls, now) \div 60

StatedTier(ls, now) ==
    LET m == StatedElapsedMinutes(ls, now)
    IN  IF m < 1 THEN <<"green", "Recently active">>
        ELSE IF m < 5 THEN <<"yellow", "Slightly stale">>
        ELSE <<"red", "Unreachable">>

StatedLabel(ls, now) ==
    LET s == StatedElapsedSeconds(ls, now)
        m == s \div 60
        h == m \div 60
    IN  IF s <= 1 THEN [text |-> "Just now", n |-> 0]
        ELSE IF s < 60 THEN [text |-> "s ago", n |-> s]
        ELSE IF m < 60 THEN [text |-> "m ago", n |-> m]
        ELSE IF h < 24 THEN [text |-> "h ago", n |-> h]
        ELSE [text |-> "date", n |-> ls \div MsPerDay]

\* C1: for every present lastSeen >= 1 and every clock reading, a lastSeen
\* ahead of the clock included, the classifier returns the tier fixed by
\* floor(floor(max(0, now - lastSeen)/1000)/60): green "Recently active"
\* below 1 minute, yellow "Slightly stale" from 1 to below 5, red
\* "Unreachable" from 5 on.
C1_TierByElapsedMinutes ==
    \A c \in RememberedCalls :
        (c.lastSeen # Null /\ Val(c.lastSeen) >= 1) =>
            <<c.result.color, c.result.description>> = StatedTier(Val(c.lastSeen), c.now)

\* A call exactly 60000 ms after lastSeen (yellow) and a call whose lastSeen
\* is ahead of the clock (green).
C1_Witness ==
    /\ CallMade(hbCall) /\ CallMade(earlierCall)
    /\ Val(earlierCall).lastSeen = Some(BaseTime)
    /\ Val(earlierCall).now - BaseTime = 60000
    /\ Val(earlierCall).result.color = "yellow"
    /\ Val(hbCall).lastSeen # Null
    /\ Val(Val(hbCall).lastSeen) > Val(hbCall).now
    /\ Val(hbCall).result.color = "green"

\* C2: the classifier returns the unknown tier (gray, "Never", "No heartbeat
\* received") exactly when lastSeen is absent; every present non-negative
\* timestamp, 0 included, gives green, yellow or red.
C2_UnknownIffAbsent ==
    \A c \in RememberedCalls :
        /\ (c.result.color = "gray") <=> (c.lastSeen = Null)
        /\ c.lastSeen = Null =>
              /\ c.result.label.text = "Never"
              /\ c.result.description = "No heartbeat received"
        /\ c.lastSeen # Null => c.result.color \in {"green", "yellow", "red"}

\* C3: for every present lastSeen the label is "Just now" up to 1 elapsed
\* second, "{s}s ago" below 60 seconds, "{m}m ago" below 60 minutes,
\* "{h}h ago" below 24 hours and a calendar date otherwise, with the elapsed
\* time clamped at 0.
C3_LabelByElapsed ==
    \A c \in RememberedCalls :
        c.lastSeen # Null => c.result.label = StatedLabel(Val(c.lastSeen), c.now)

Compare(cmp, a, b) ==
    IF cmp = "desc" THEN b.timestamp - a.timestamp ELSE a.timestamp - b.timestamp

InsertSortedUnstable(sorted, x, cmp) ==
    LET later == {j \in 1..Len(sorted) : Compare(cmp, sorted[j], x) >= 0}
        at    == IF later = {} THEN Len(sorted) + 1
                 ELSE CHOOSE j \in later : \A k \in later : j <= k
    IN  SubSeq(sorted, 1, at - 1) \o <<x>> \o SubSeq(sorted, at, Len(sorted))

\* Array.prototype.sort with comparator cmp is stable: an element goes
\* behind every element that does not compare greater than it.
InsertSorted(sorted, x, cmp) ==
    LET later == {j \in 1..Len(sorted) : Compare(cmp, sorted[j], x) > 0}
        at    == IF later = {} THEN Len(sorted) + 1
                 ELSE CHOOSE j \in later : \A k \in later : j <= k
    IN  SubSeq(sorted, 1, at - 1) \o <<x>> \o SubSeq(sorted, at, Len(sorted))

ArraySort(arr, cmp) ==
    LET f[i \in 0..Len(arr)] ==
            IF i = 0 THEN <<>> ELSE InsertSorted(f[i - 1], arr[i], cmp)
    IN  f[Len(arr)]

LatestByTargetLastWins(sorted) ==
    LET last == {i \in 1..Len(sorted) :
                    \A j \in (i + 1)..Len(sorted) : sorted[j].target # sorted[i].target}
        firstOfTarget(i) ==
            CHOOSE j \in 1..Len(sorted) :
                /\ sorted[j].target = sorted[i].target
                /\ \A k \in 1..(j - 1) : sorted[k].target # sorted[i].target
        f[i \in 0..Len(sorted)] ==
            IF i = 0 THEN <<>>
            ELSE IF \A k \in 1..(i - 1) : sorted[k].target # sorted[i].target
                 THEN Append(f[i - 1],
                             sorted[CHOOSE j \in last : sorted[j].target = sorted[i].target])
                 ELSE f[i - 1]
    IN  f[Len(sorted)]

\* The Map filled by the loop over sorted, as Array.from(map.values()): a
\* target's entry is set only while the map does not have it, and the
\* values come in insertion order.
LatestByTarget(sorted) ==
    LET f[i \in 0..Len(sorted)] ==
            IF i = 0 THEN <<>>
            ELSE IF \A k \in 1..Len(f[i - 1]) : f[i - 1][k].target # sorted[i].target
                 THEN Append(f[i - 1], sorted[i])
                 ELSE f[i - 1]
    IN  f[Len(sorted)]

FindWithPublicIpNotNull(sorted) ==
    LET hits == {i \in 1..Len(sorted) : sorted[i].publicIp # Null}
    IN  IF hits = {} THEN Null
        ELSE Some(sorted[CHOOSE i \in hits : \A j \in hits : i <= j])

\* sorted.find((check) => check.publicIp) ?? null
FindWithPublicIp(sorted) ==
    LET hits == {i \in 1..Len(sorted) : TruthyString(sorted[i].publicIp)}
    IN  IF hits = {} THEN Null
        ELSE Some(sorted[CHOOSE i \in hits : \A j \in hits : i <= j])

SummaryMemoSortsInput(input) ==
    IF Len(input) = 0
    THEN [input |-> input, latestByTarget |-> <<>>, latestWithIp |-> Null]
    ELSE LET sorted == ArraySort(input, "desc")
         IN  [input |-> sorted,
              latestByTarget |-> LatestByTarget(sorted),
              latestWithIp |-> FindWithPublicIp(sorted)]

\* The memo callback of ConnectivitySummary.  `input` is the caller's array
\* as the call leaves it: [...checks] is a copy, and the sort works on it.
SummaryMemo(input) ==
    IF Len(input) = 0
    THEN [input |-> input, latestByTarget |-> <<>>, latestWithIp |-> Null]
    ELSE LET sorted == ArraySort(input, "desc")
         IN  [input |-> input,
              latestByTarget |-> LatestByTarget(sorted),
              latestWithIp |-> FindWithPublicIp(sorted)]

\* new Date(ts).toLocaleTimeString([], {hour: "2-digit", minute: "2-digit"}):
\* the hour and minute of the day, the seconds and the day dropped.
formatTime(ts) ==
    LET minutes == ts \div 60000
    IN  [hour |-> (minutes \div 60) % 24, minute |-> minutes % 60]

LatencyFilterNotNull(check, target) ==
    check.target = target /\ check.latencyMs # Null

\* (check) => check.target === target && check.latencyMs
LatencyFilter(check, target) ==
    check.target = target /\ TruthyNumber(check.latencyMs)

\* (check) => ({time: formatTime(check.timestamp), latency: check.latencyMs})
LatencyPoint(check) ==
    [time |-> formatTime(check.timestamp), latency |-> check.latencyMs]

\* The memo callback of ConnectivityLatencyChart.  filter returns a new
\* array, the sort works on that one, and map returns another.
ChartDataMemo(input, target) ==
    LET filtered == SelectSeq(input, LAMBDA c : LatencyFilter(c, target))
        sorted   == ArraySort(filtered, "asc")
    IN  [input |-> input,
         points |-> [i \in 1..Len(sorted) |-> LatencyPoint(sorted[i])]]

\* The connectivity checks the backend may return.
Targets == {"8.8.8.8", "1.1.1.1"}

Timestamps == {60000, 120000}

\* publicIp and latencyMs of a check: optional, and possibly "" or 0.
CheckDetails ==
    {[publicIp |-> Null,                latencyMs |-> Some(12)],
     [publicIp |-> Some(""),            latencyMs |-> Some(0)],
     [publicIp |-> Some("203.0.113.7"), latencyMs |-> Null]}

CheckRecords ==
    {[target |-> t, timestamp |-> ts, publicIp |-> d.publicIp, latencyMs |-> d.latencyMs] :
        t \in Targets, ts \in Timestamps, d \in CheckDetails}

MaxChecks == 3

ConnInit ==
    /\ checks = <<>>
    /\ checksCopy = <<>>
    /\ summary = Null
    /\ prevSummary = Null
    /\ chartData = Null

\* connectivityQuery delivers an array holding one more check; the memos of
\* both components are due again.
ConnectivityPoll(r) ==
    /\ Len(checks) < MaxChecks
    /\ checks' = Append(checks, r)
    /\ checksCopy' = Append(checks, r)
    /\ summary' = Null
    /\ prevSummary' = Null
    /\ chartData' = Null
    /\ UNCHANGED notConnVars

\* ConnectivitySummary runs its memo callback on checks.
ConnectivitySummary ==
    LET out == SummaryMemo(checks)
    IN  /\ checks' = out.input
        /\ summary' = Some([latestByTarget |-> out.latestByTarget,
                            latestWithIp |-> out.latestWithIp])
        /\ prevSummary' = summary
        /\ UNCHANGED <<checksCopy, chartData, notConnVars>>

\* ConnectivityLatencyChart runs its memo callback on checks for a target.
ConnectivityLatencyChart(target) ==
    LET out == ChartDataMemo(checks, target)
    IN  /\ checks' = out.input
        /\ chartData' = Some([target |-> target, points |-> out.points])
        /\ UNCHANGED <<checksCopy, summary, prevSummary, notConnVars>>

ConnNext ==
    \/ \E r \in CheckRecords : ConnectivityPoll(r)
    \/ ConnectivitySummary
    \/ \E t \in Targets : ConnectivityLatencyChart(t)

(***************************************************************************)
(* Connectivity summary and latency chart: the claims                      *)
(***************************************************************************)
TargetsOf(arr) == {arr[i].target : i \in 1..Len(arr)}

\* The index in arr of the check that is latest for target t: the maximum
\* timestamp among t's checks, the earliest of those in arr.
LatestIndexOf(arr, t) ==
    CHOOSE i \in 1..Len(arr) :
        /\ arr[i].target = t
        /\ \A j \in 1..Len(arr) : arr[j].target = t =>
              \/ arr[j].timestamp < arr[i].timestamp
              \/ arr[j].timestamp = arr[i].timestamp /\ i <= j

\* C5: latestByTarget holds exactly one check for each target of the input
\* and none for another target; it is the input check of that target with
\* the maximum timestamp, the earliest in the input among equals; the empty
\* input gives the empty sequence.
C5_LatestByTarget ==
    summary # Null =>
        LET out == Val(summary).latestByTarget
        IN  /\ {out[k].target : k \in 1..Len(out)} = TargetsOf(checksCopy)
            /\ Len(out) = Cardinality(TargetsOf(checksCopy))
            /\ \A k \in 1..Len(out) :
                  out[k] = checksCopy[LatestIndexOf(checksCopy, out[k].target)]

\* A summary of three checks where a target has two checks of its maximum
\* timestamp that differ, and an older one in front of them.
C5_Witness ==
    /\ summary # Null
    /\ Len(checksCopy) = 3
    /\ checksCopy[1].target = checksCopy[2].target
    /\ checksCopy[2].target = checksCopy[3].target
    /\ checksCopy[1].timestamp < checksCopy[2].timestamp
    /\ checksCopy[2].timestamp = checksCopy[3].timestamp
    /\ checksCopy[2] # checksCopy[3]
    /\ Val(summary).latestByTarget = <<checksCopy[2]>>

WithPublicIp(arr) == {i \in 1..Len(arr) : TruthyString(arr[i].publicIp)}

\* C6: latestWithIp is an input check with a present, non-empty publicIp
\* whose timestamp is the maximum among such checks, whatever its position
\* and target; it is null exactly when the input has no such check.
C6_LatestWithIp ==
    summary # Null =>
        LET out  == Val(summary).latestWithIp
            with == WithPublicIp(checksCopy)
        IN  /\ (out = Null) <=> (with = {})
            /\ out # Null =>
                  /\ \E i \in with : checksCopy[i] = Val(out)
                  /\ \A j \in with : checksCopy[j].timestamp <= Val(out).timestamp

\* The only check with a non-empty publicIp is the oldest and the last of
\* the input, behind a check with publicIp "" and one with none.
C6_Witness ==
    /\ summary # Null
    /\ Len(checksCopy) = 3
    /\ WithPublicIp(checksCopy) = {3}
    /\ checksCopy[1].publicIp = Some("")
    /\ checksCopy[2].publicIp = Null
    /\ checksCopy[3].timestamp < checksCopy[1].timestamp
    /\ Val(summary).latestWithIp = Some(checksCopy[3])

\* C7: neither memo callback changes the array it is given, and a second
\* run of the summary on it returns what the first returned.
C7_InputNotMutated ==
    /\ checks = checksCopy
    /\ (summary # Null /\ prevSummary # Null) => summary = prevSummary

\* Both callbacks have run, the summary twice, on an array that neither an
\* ascending nor a descending sort would leave as it is.
C7_Witness ==
    /\ summary # Null
    /\ prevSummary # Null
    /\ chartData # Null
    /\ Len(checksCopy) = 3
    /\ ArraySort(checksCopy, "desc") # checksCopy
    /\ ArraySort(checksCopy, "asc") # checksCopy
    /\ Len(Val(chartData).points) >= 2

\* The bijections of 1..n onto itself.
Permutations1(n) == {p \in [1..n -> 1..n] : \A i, j \in 1..n : p[i] = p[j] => i = j}

\* The indices in arr of the checks for target with a present, non-zero latencyMs.
WithLatency(arr, target) ==
    {i \in 1..Len(arr) :
        arr[i].target = target /\ arr[i].latencyMs # Null /\ Val(arr[i].latencyMs) # 0}

\* C8: the latency series has one point for each input check of the given
\* target with a present, non-zero latencyMs and no other point; the points
\* are in non-decreasing timestamp order and each carries its check's
\* latencyMs (and formatted time).
C8_LatencySeries ==
    chartData # Null =>
        LET points == Val(chartData).points
            sel    == SelectSeq(checksCopy,
                                LAMBDA c : /\ c.target = Val(chartData).target
                                           /\ c.latencyMs # Null
                                           /\ Val(c.latencyMs) # 0)
        IN  /\ Len(points) = Len(sel)
            /\ \E p \in Permutations1(Len(sel)) :
                  /\ \A i \in 1..Len(sel) :
                        /\ points[i].latency = sel[p[i]].latencyMs
                        /\ points[i].time = formatTime(sel[p[i]].timestamp)
                  /\ \A i \in 1..(Len(sel) - 1) :
                        sel[p[i]].timestamp <= sel[p[i + 1]].timestamp

\* A chart for a target whose checks come newest first, with one of latency
\* 0 between two with a latency; the third check is charted first.
C8_Witness ==
    /\ chartData # Null
    /\ Len(checksCopy) = 3
    /\ \A i \in 1..3 : checksCopy[i].target = Val(chartData).target
    /\ checksCopy[1].timestamp > checksCopy[3].timestamp
    /\ checksCopy[2].latencyMs = Some(0)
    /\ WithLatency(checksCopy, Val(chartData).target) = {1, 3}
    /\ Val(chartData).points = <<LatencyPoint(checksCopy[3]), LatencyPoint(checksCopy[1])>>

\* C11: latestByTarget is in non-increasing timestamp order whatever the
\* order of the input, and entries of equal timestamp come in the order
\* their checks have in the input.
C11_LatestByTargetOrder ==
    summary # Null =>
        LET out == Val(summary).latestByTarget
        IN  \A i, j \in 1..Len(out) :
                i < j =>
                    /\ out[i].timestamp >= out[j].timestamp
                    /\ out[i].timestamp = out[j].timestamp =>
                          LatestIndexOf(checksCopy, out[i].target)
                              < LatestIndexOf(checksCopy, out[j].target)

\* The input starts with an old check of the target whose latest check
\* comes last; the two entries have equal timestamps and keep the input
\* order of their checks, the other target first.
C11_Witness ==
    /\ summary # Null
    /\ Len(checksCopy) = 3
    /\ checksCopy[1].target = checksCopy[3].target
    /\ checksCopy[2].target # checksCopy[3].target
    /\ checksCopy[1].timestamp < checksCopy[2].timestamp
    /\ checksCopy[2].timestamp = checksCopy[3].timestamp
    /\ Val(summary).latestByTarget = <<checksCopy[2], checksCopy[3]>>

(***************************************************************************)
(* API client configuration (lib/api.ts, routes/api/config.ts)             *)
(***************************************************************************)
DEFAULT_API_BASE_URL == "http://localhost:3001"

\* A backend URL other than the default.
BackendUrl == "https://core.example.test"

\* process.env.API_URL of the server process: unset, empty or a URL.
EnvValues == {Null, Some(""), Some(BackendUrl), Some(DEFAULT_API_BASE_URL)}

\* s || DEFAULT_API_BASE_URL for a string | undefined s.
OrDefault(s) == IF TruthyString(s) THEN Val(s) ELSE DEFAULT_API_BASE_URL

\* The GET handler of /api/config: the JSON body it answers with.
APIRoute(env) == [apiUrl |-> Some(OrDefault(env))]

\* What `await fetch("/api/config")` and `await res.json()` can come to:
\* the route's body, a JSON body without apiUrl, or a throw.
ConfigOutcomes == {"route", "noApiUrl", "unreachable"}

\* createFetchClient({baseUrl}): a new client object, told apart by id.
createFetchClient(id, baseUrl) == [id |-> id, baseUrl |-> baseUrl]

MaxInitCalls == 2

InitCalls == 1..MaxInitCalls

\* The module as loaded: cachedApiUrl and fetchClientInstance as declared,
\* then `api = createClient(getFetchClient())`, where getFetchClient finds
\* no instance and creates one for `cachedApiUrl || DEFAULT_API_BASE_URL`.
ApiInitIn(browser, env) ==
    /\ isBrowser = browser
    /\ envApiUrl = env
    /\ cachedApiUrl = DEFAULT_API_BASE_URL
    /\ fetchClientInstance = Some(createFetchClient(0, OrDefault(Some(DEFAULT_API_BASE_URL))))
    /\ api = createFetchClient(0, OrDefault(Some(DEFAULT_API_BASE_URL)))
    /\ clientsCreated = 1
    /\ initCall = [i \in InitCalls |-> [pc |-> "idle", apiUrl |-> Null, lookup |-> "none"]]
    /\ lookups = 0
    /\ request = Null

\* The module is loaded in a browser or on the server, under any API_URL.
ApiInit == \E browser \in BOOLEAN, env \in EnvValues : ApiInitIn(browser, env)

\* initializeApi is called and runs getApiUrl up to its first await: the
\* cached URL is returned when it is not the default; in a browser the
\* fetch of /api/config is issued; otherwise the environment is read.
InitializeApiStart(i) ==
    /\ initCall[i].pc = "idle"
    /\ IF cachedApiUrl # DEFAULT_API_BASE_URL
       THEN /\ initCall' = [initCall EXCEPT ![i] =
                              [pc |-> "resolved", apiUrl |-> Some(cachedApiUrl),
                               lookup |-> "cached"]]
            /\ UNCHANGED <<cachedApiUrl, lookups>>
       ELSE IF isBrowser
            THEN /\ initCall' = [initCall EXCEPT ![i] =
                                   [pc |-> "fetching", apiUrl |-> Null, lookup |-> "none"]]
                 /\ lookups' = lookups + 1
                 /\ UNCHANGED cachedApiUrl
            ELSE /\ cachedApiUrl' = OrDefault(envApiUrl)
                 /\ initCall' = [initCall EXCEPT ![i] =
                                   [pc |-> "resolved", apiUrl |-> Some(OrDefault(envApiUrl)),
                                    lookup |-> "env"]]
                 /\ lookups' = lookups + 1
    /\ UNCHANGED <<isBrowser, envApiUrl, fetchClientInstance, api, clientsCreated, request,
                   notApiVars>>

\* The fetch of /api/config settles and getApiUrl returns cachedApiUrl.
ConfigResponse(i, outcome) ==
    /\ initCall[i].pc = "fetching"
    /\ LET url == IF outcome = "route" THEN OrDefault(APIRoute(envApiUrl).apiUrl)
                  ELSE IF outcome = "noApiUrl" THEN OrDefault(Null)
                  ELSE DEFAULT_API_BASE_URL
       IN  /\ cachedApiUrl' = url
           /\ initCall' = [initCall EXCEPT ![i] =
                             [pc |-> "resolved", apiUrl |-> Some(url), lookup |-> outcome]]
    /\ UNCHANGED <<isBrowser, envApiUrl, fetchClientInstance, api, clientsCreated, lookups,
                   request, notApiVars>>

\* initializeApi goes on after `await getApiUrl()`: a new client for apiUrl
\* is assigned to fetchClientInstance.
InitializeApiFinish(i) ==
    /\ initCall[i].pc = "resolved"
    /\ fetchClientInstance' = Some(createFetchClient(clientsCreated, Val(initCall[i].apiUrl)))
    /\ clientsCreated' = clientsCreated + 1
    /\ initCall' = [initCall EXCEPT ![i].pc = "done"]
    /\ UNCHANGED <<isBrowser, envApiUrl, cachedApiUrl, api, lookups, request, notApiVars>>

\* A request is issued through the exported api (api.useQuery,
\* api.useMutation): it goes to the base URL of the client api wraps.
ApiRequest ==
    /\ request' = Some([baseUrl |-> api.baseUrl,
                        client |-> api.id,
                        afterInit |-> \E i \in InitCalls : initCall[i].pc = "done",
                        resolved |-> Val(fetchClientInstance).baseUrl])
    /\ UNCHANGED <<isBrowser, envApiUrl, cachedApiUrl, fetchClientInstance, api,
                   clientsCreated, initCall, lookups, notApiVars>>

ApiNext ==
    \/ \E i \in InitCalls : InitializeApiStart(i)
    \/ \E i \in InitCalls, o \in ConfigOutcomes : ConfigResponse(i, o)
    \/ \E i \in InitCalls : InitializeApiFinish(i)
    \/ ApiRequest

(***************************************************************************)
(* API client configuration: the claims                                    *)
(***************************************************************************)
\* C9: in a browser the base URL is the apiUrl /api/config returns, the
\* default when the endpoint is unreachable or returns no apiUrl; outside a
\* browser it is API_URL, the default when unset; and once initializeApi
\* has completed, every request issued through the exported api goes to
\* the resolved base URL.
C9_RequestsUseResolvedUrl ==
    /\ \A i \in InitCalls :
          initCall[i].pc \in {"resolved", "done"} =>
              /\ initCall[i].lookup = "env" =>
                    /\ ~isBrowser
                    /\ Val(initCall[i].apiUrl) =
                          (IF envApiUrl \in {Null, Some("")} THEN DEFAULT_API_BASE_URL
                           ELSE Val(envApiUrl))
              /\ initCall[i].lookup \in ConfigOutcomes => isBrowser
              /\ initCall[i].lookup \in {"noApiUrl", "unreachable"} =>
                    Val(initCall[i].apiUrl) = DEFAULT_API_BASE_URL
              /\ initCall[i].lookup = "route" =>
                    Val(initCall[i].apiUrl) = Val(APIRoute(envApiUrl).apiUrl)
    /\ (request # Null /\ Val(request).afterInit) =>
          Val(request).baseUrl = Val(request).resolved

\* Some call of initializeApi has its URL: a first lookup, if one was
\* needed, is over.
SomeCallResolved == \E i \in InitCalls : initCall[i].pc \in {"resolved", "done"}

\* C12: configuration resolution is lazy and cached: /api/config or the
\* environment is consulted the first time only; once a call has its URL,
\* whatever the lookup produced (the default and a failed lookup included),
\* no later call consults them again.
C12_NoLookupAfterFirst == [][SomeCallResolved => lookups' = lookups]_vars

(***************************************************************************)
(* Mutations of the instance page (routes/instances.$id.tsx)               *)
(***************************************************************************)
\* The available updates on the page: updateType, slug and name.
Updates ==
    {[id |-> "u1", updateType |-> "core",  slug |-> Null,              name |-> Some("Core")],
     [id |-> "u2", updateType |-> "addon", slug |-> Some("mosquitto"), name |-> Some("Mosquitto")],
     [id |-> "u3", updateType |-> "addon", slug |-> Some(""),          name |-> Null]}

\* `${update.updateType}-${update.slug || update.name || ""}`
UpdateKey(u) ==
    u.updateType \o "-" \o
        (IF TruthyString(u.slug) THEN Val(u.slug)
         ELSE IF TruthyString(u.name) THEN Val(u.name) ELSE "")

\* The queries refetchAll refetches.
PolledQueries == {"instance", "system-info", "updates", "heartbeats", "connectivity"}

\* The delay of setTimeout(refetchAll, 2000).
RefetchDelayMs == 2000

MaxCalls == 3

MutInit ==
    /\ isDeleting = FALSE
    /\ deleteDialogOpen = FALSE
    /\ triggeringUpdate = Null
    /\ navigated = FALSE
    /\ instanceStatus = "online"
    /\ calls = <<>>
    /\ timers = <<>>
    /\ refetchRuns = 0
    /\ refetched = {}

\* instanceQuery delivers another instance.status.
InstanceStatusPoll(s) ==
    /\ s # instanceStatus
    /\ instanceStatus' = s
    /\ UNCHANGED <<isDeleting, deleteDialogOpen, triggeringUpdate, navigated, calls, timers,
                   refetchRuns, refetched, notMutVars>>

\* The Update button of u is clicked (it is disabled while u's key is the
\* triggering one or the instance is not online): handleTriggerUpdate runs
\* up to its await, having sent the one trigger-update request.
TriggerUpdateStart(u) ==
    /\ ~navigated
    /\ Len(calls) < MaxCalls
    /\ ~(triggeringUpdate = Some(UpdateKey(u)) \/ instanceStatus # "online")
    /\ triggeringUpdate' = Some(UpdateKey(u))
    /\ calls' = Append(calls, [kind |-> "trigger", update |-> u.id, key |-> UpdateKey(u),
                               outcome |-> "pending", requests |-> 1, timers |-> 0])
    /\ UNCHANGED <<isDeleting, deleteDialogOpen, navigated, instanceStatus, timers,
                   refetchRuns, refetched, notMutVars>>

TriggerUpdateSettleAlwaysRefetch(i, ok) ==
    /\ i \in 1..Len(calls)
    /\ calls[i].kind = "trigger"
    /\ calls[i].outcome = "pending"
    /\ calls' = [calls EXCEPT ![i].outcome = IF ok THEN "success" ELSE "failure",
                              ![i].timers = @ + 1]
    /\ timers' = Append(timers, [callback |-> "refetchAll", delay |-> RefetchDelayMs])
    /\ triggeringUpdate' = Null
    /\ UNCHANGED <<isDeleting, deleteDialogOpen, navigated, instanceStatus, refetchRuns,
                   refetched, notMutVars>>

\* The trigger-update request of call i settles and handleTriggerUpdate
\* runs on: on success the toast and setTimeout(refetchAll, 2000), on
\* failure the error toast; either way setTriggeringUpdate(null).
TriggerUpdateSettle(i, ok) ==
    /\ i \in 1..Len(calls)
    /\ calls[i].kind = "trigger"
    /\ calls[i].outcome = "pending"
    /\ IF ok
       THEN /\ calls' = [calls EXCEPT ![i].outcome = "success", ![i].timers = @ + 1]
            /\ timers' = Append(timers, [callback |-> "refetchAll", delay |-> RefetchDelayMs])
       ELSE /\ calls' = [calls EXCEPT ![i].outcome = "failure"]
            /\ UNCHANGED timers
    /\ triggeringUpdate' = Null
    /\ UNCHANGED <<isDeleting, deleteDialogOpen, navigated, instanceStatus, refetchRuns,
                   refetched, notMutVars>>

\* The Delete Instance menu item: setDeleteDialogOpen(true).
OpenDeleteDialog ==
    /\ ~navigated
    /\ ~deleteDialogOpen
    /\ deleteDialogOpen' = TRUE
    /\ UNCHANGED <<isDeleting, triggeringUpdate, navigated, instanceStatus, calls, timers,
                   refetchRuns, refetched, notMutVars>>

\* The dialog's Cancel button (disabled while isDeleting): onOpenChange(false).
CancelDeleteDialog ==
    /\ ~navigated
    /\ deleteDialogOpen
    /\ ~isDeleting
    /\ deleteDialogOpen' = FALSE
    /\ UNCHANGED <<isDeleting, triggeringUpdate, navigated, instanceStatus, calls, timers,
                   refetchRuns, refetched, notMutVars>>

\* The dialog's Delete button (disabled while isDeleting) is clicked:
\* handleDelete passes its isDeleting guard and runs up to its await,
\* having sent the one delete-instance request.
DeleteStart ==
    /\ ~navigated
    /\ Len(calls) < MaxCalls
    /\ deleteDialogOpen
    /\ ~isDeleting
    /\ isDeleting' = TRUE
    /\ calls' = Append(calls, [kind |-> "delete", update |-> "", key |-> "",
                               outcome |-> "pending", requests |-> 1, timers |-> 0])
    /\ UNCHANGED <<deleteDialogOpen, triggeringUpdate, navigated, instanceStatus, timers,
                   refetchRuns, refetched, notMutVars>>

DeleteSettleResetOnSuccess(i, ok) ==
    /\ i \in 1..Len(calls)
    /\ calls[i].kind = "delete"
    /\ calls[i].outcome = "pending"
    /\ IF ok
       THEN /\ calls' = [calls EXCEPT ![i].outcome = "success"]
            /\ deleteDialogOpen' = FALSE
            /\ navigated' = TRUE
            /\ isDeleting' = FALSE
       ELSE /\ calls' = [calls EXCEPT ![i].outcome = "failure"]
            /\ UNCHANGED <<deleteDialogOpen, navigated, isDeleting>>
    /\ UNCHANGED <<triggeringUpdate, instanceStatus, timers, refetchRuns, refetched,
                   notMutVars>>

\* The delete-instance request of call i settles and handleDelete runs on:
\* on success the dialog is closed and the page navigates to "/", on
\* failure the error toast; either way setIsDeleting(false).
DeleteSettle(i, ok) ==
    /\ i \in 1..Len(calls)
    /\ calls[i].kind = "delete"
    /\ calls[i].outcome = "pending"
    /\ IF ok
       THEN /\ calls' = [calls EXCEPT ![i].outcome = "success"]
            /\ deleteDialogOpen' = FALSE
            /\ navigated' = TRUE
       ELSE /\ calls' = [calls EXCEPT ![i].outcome = "failure"]
            /\ UNCHANGED <<deleteDialogOpen, navigated>>
    /\ isDeleting' = FALSE
    /\ UNCHANGED <<triggeringUpdate, instanceStatus, timers, refetchRuns, refetched,
                   notMutVars>>

\* The oldest timer comes due and runs refetchAll: a refetch of each of the
\* five polled queries.
RefetchTimerFires ==
    /\ timers # <<>>
    /\ timers' = Tail(timers)
    /\ refetchRuns' = refetchRuns + 1
    /\ refetched' = PolledQueries
    /\ UNCHANGED <<isDeleting, deleteDialogOpen, triggeringUpdate, navigated, instanceStatus,
                   calls, notMutVars>>

MutNext ==
    \/ \E s \in {"online", "offline"} : InstanceStatusPoll(s)
    \/ \E u \in Updates : TriggerUpdateStart(u)
    \/ \E i \in 1..MaxCalls, ok \in BOOLEAN : TriggerUpdateSettle(i, ok)
    \/ OpenDeleteDialog
    \/ CancelDeleteDialog
    \/ DeleteStart
    \/ \E i \in 1..MaxCalls, ok \in BOOLEAN : DeleteSettle(i, ok)
    \/ RefetchTimerFires

(***************************************************************************)
(* Mutations: the claims                                                   *)
(***************************************************************************)
CallsOf(kind, outcome) ==
    {i \in 1..Len(calls) : calls[i].kind = kind /\ calls[i].outcome = outcome}

\* C10 as stated: each mutation, trigger-update or delete-instance, sends a
\* single request, and a re-fetch of the polled queries is scheduled once
\* it succeeds and only then: exactly one after a success, none otherwise.
C10_RefetchAfterEverySuccess ==
    \A i \in 1..Len(calls) :
        /\ calls[i].requests = 1
        /\ calls[i].timers = (IF calls[i].outcome = "success" THEN 1 ELSE 0)

\* C10 amended: each mutation sends a single request; a trigger-update
\* schedules exactly one re-fetch of the five polled queries, RefetchDelayMs
\* later, once it succeeds and none while in flight or after a failure; a
\* delete-instance never schedules one.
C10_RefetchAfterTriggerSuccess ==
    /\ \A i \in 1..Len(calls) :
          /\ calls[i].requests = 1
          /\ calls[i].timers =
                (IF calls[i].kind = "trigger" /\ calls[i].outcome = "success" THEN 1 ELSE 0)
    /\ Len(timers) + refetchRuns = Cardinality(CallsOf("trigger", "success"))
    /\ \A k \in 1..Len(timers) :
          timers[k] = [callback |-> "refetchAll", delay |-> RefetchDelayMs]
    /\ refetched = (IF refetchRuns > 0 THEN PolledQueries ELSE {})

\* A trigger-update that succeeded and one that failed, then a delete that
\* succeeded; the one scheduled re-fetch has run.
C10_Witness ==
    /\ Len(calls) = 3
    /\ calls[1].kind = "trigger" /\ calls[1].outcome = "success"
    /\ calls[2].kind = "trigger" /\ calls[2].outcome = "failure"
    /\ calls[3].kind = "delete" /\ calls[3].outcome = "success"
    /\ navigated
    /\ refetchRuns = 1
    /\ timers = <<>>

\* A delete-instance request is sent in this step.
DeleteSent ==
    /\ Len(calls') = Len(calls) + 1
    /\ calls'[Len(calls')].kind = "delete"

\* The delete-instance request of call i settles in this step with the outcome.
DeleteSettles(i, outcome) ==
    /\ i \in 1..Len(calls)
    /\ calls[i].kind = "delete"
    /\ calls[i].outcome = "pending"
    /\ calls'[i].outcome = outcome

\* C13: delete is single-flight and self-resetting: at most one
\* delete-instance request is in flight, and isDeleting holds exactly while
\* one is (so it is false again once the request settles, success or
\* failure); a confirmation while isDeleting sends nothing; the page
\* navigates and the dialog is closed only on a success; a failure leaves
\* the dialog open and does not navigate.
C13_DeleteSingleFlight ==
    /\ [](/\ Cardinality(CallsOf("delete", "pending")) <= 1
          /\ isDeleting <=> (CallsOf("delete", "pending") # {})
          /\ isDeleting => deleteDialogOpen
          /\ navigated <=> (CallsOf("delete", "success") # {})
          /\ navigated => ~deleteDialogOpen)
    /\ [][/\ DeleteSent => ~isDeleting
          /\ (navigated' /\ ~navigated) =>
                \E i \in 1..Len(calls) : DeleteSettles(i, "success")
          /\ \A i \in 1..Len(calls) :
                /\ DeleteSettles(i, "success") =>
                      ~deleteDialogOpen' /\ navigated' /\ ~isDeleting'
                /\ DeleteSettles(i, "failure") =>
                      deleteDialogOpen /\ deleteDialogOpen' /\ ~navigated' /\ ~isDeleting']_vars

\* A delete that failed, with the dialog left open, and a second one,
\* confirmed afterwards, that succeeded and left the page.
C13_Witness ==
    /\ Len(calls) = 2
    /\ calls[1].kind = "delete" /\ calls[1].outcome = "failure"
    /\ calls[2].kind = "delete" /\ calls[2].outcome = "success"
    /\ navigated
    /\ ~deleteDialogOpen
    /\ ~isDeleting

\* C14: while a trigger-update request for an update is in flight,
\* triggeringUpdate is that update's key, so no second request for the same
\* update is in flight with it, under any interleaving of triggers and
\* settlements; and once no request is in flight triggeringUpdate is null.
C14_TriggeringWhileInFlight ==
    LET inFlight == CallsOf("trigger", "pending")
    IN  /\ \A i \in inFlight : triggeringUpdate = Some(calls[i].key)
        /\ \A i, j \in inFlight : calls[i].update = calls[j].update => i = j
        /\ inFlight = {} => triggeringUpdate = Null

(***************************************************************************)
(* Specifications                                                          *)
(***************************************************************************)
\* The page in a browser whose server has no API_URL set.
Init == HbInit /\ ConnInit /\ ApiInitIn(TRUE, Null) /\ MutInit

\* The api module in either runtime, under any API_URL.
InitApi == HbInit /\ ConnInit /\ ApiInit /\ MutInit

SpecHeartbeat == Init /\ [][HbNext]_vars

SpecConnectivity == Init /\ [][ConnNext]_vars

SpecApi == InitApi /\ [][ApiNext]_vars

SpecMutations == Init /\ [][MutNext]_vars

====
